---- MODULE Spec2Model ----
(***************************************************************************)
(* A model of src/gui.py: the animated page stack (AnimatedStack) and the  *)
(* query table (DataTable) of the Kongsberg Portal window.                 *)
(*                                                                         *)
(* Everything runs on the single UI thread: a handler runs to completion   *)
(* before the next event is taken, requests.post blocks that thread, and   *)
(* QMessageBox.critical runs a nested event loop that is modal for the     *)
(* main window (timers fire, clicks on the window do not).                 *)
(* Layout passes and window resizes are not part of the model.             *)
(***************************************************************************)
EXTENDS Integers, Sequences, FiniteSets, TLC

VARIABLES
    \* ---- AnimatedStack ----
    currentIndex,   \* QStackedWidget.currentIndex()
    geometry,       \* the stack's geometry() in its parent's coordinates
    pageGeometry,   \* widget(i).geometry(), i in Pages
    pageVisible,    \* widget(i).isVisible()
    animStart,      \* anim.startValue()
    animEnd,        \* anim.endValue()
    animState,      \* anim.state(): "Stopped" or "Running"
    animTime,       \* anim.currentTime(), in timer ticks
    \* ---- DataTable ----
    table,          \* the QTableWidget: row/column count, headers, items
    data,           \* the handler's local: the response of the last request
    sent,           \* the POSTs issued by the current / most recent run_query
    dialogs,        \* the error dialogs shown by the current / most recent run_query
    outcome,        \* how the most recent run_query ended
    \* ---- the UI thread ----
    ui,             \* "idle", "posting" (blocked in requests.post) or "dialog"
    \* ---- observation of the calls made (history) ----
    lastIndex,      \* argument of the most recent setCurrentIndexAnimated, -1 if none
    lastFrom,       \* currentIndex() when that call was made, -1 if none
    lastRect,       \* geometry() of the stack when that call was made
    lastNoop,       \* the most recent setCurrentIndexAnimated took the early return
    lastRunning,    \* an animation was running when the most recent call was made
    calls,          \* number of setCurrentIndexAnimated calls so far
    clicked,        \* label of the most recently clicked query button, "" if none
    prevShape,      \* <<rows, columns>> of the table when the most recent run_query began
    everFailed      \* some earlier run_query ended in the error dialog

stackVars == <<currentIndex, geometry, pageGeometry, pageVisible,
               animStart, animEnd, animState, animTime>>
tableVars == <<table, data, sent, dialogs, outcome>>
stackHist == <<lastIndex, lastFrom, lastRect, lastNoop, lastRunning, calls>>
tableHist == <<clicked, prevShape, everFailed>>
histVars  == <<stackHist, tableHist>>
vars      == <<stackVars, tableVars, ui, histVars>>

(***************************************************************************)
(* Bounds of the model and constants of the program.                       *)
(***************************************************************************)
MaxCalls    == 3      \* navigation clicks explored
StackWidth  == 1700   \* width of the laid-out stack (screen width - sidebar)
StackHeight == 1040   \* height of the laid-out stack (screen height - title bar)
TickMs      == 100    \* granularity of the animation timer in the model
MaxRows     == 2      \* rows in a response

NavWidth    == 220    \* nav.setFixedWidth(220)
Duration    == 400    \* anim.setDuration(400)
NumPages    == 4      \* home, production, logistics, settings

Pages == 0 .. (NumPages - 1)
Steps == Duration \div TickMs   \* ticks from start to end of one animation

(***************************************************************************)
(* QRect: integer corners, both inclusive.                                 *)
(***************************************************************************)
QRect(x1, y1, x2, y2) == [x1 |-> x1, y1 |-> y1, x2 |-> x2, y2 |-> y2]

NullRect == QRect(0, 0, -1, -1)

width(r)  == r.x2 - r.x1 + 1
height(r) == r.y2 - r.y1 + 1

\* QRect.moveLeft(x): the left edge goes to the ABSOLUTE coordinate x, size kept
moveLeft(r, x) == [r EXCEPT !.x1 = x, !.x2 = x + (r.x2 - r.x1)]

\* the geometry the layout gives the stack: right of the sidebar, full height
RestRect == QRect(NavWidth, 0, NavWidth + StackWidth - 1, StackHeight - 1)

\* geometry of a page that was never laid out (QWidget's default for a child)
DefaultPageRect == QRect(0, 0, 99, 29)

\* the layout of the stack gives the current page the stack's own rect()
FullPageRect == QRect(0, 0, StackWidth - 1, StackHeight - 1)

(***************************************************************************)
(* QPropertyAnimation on b"geometry" with QEasingCurve.OutCubic.           *)
(***************************************************************************)
\* C-style conversion of n/d to int: truncation toward zero (d > 0)
TruncDiv(n, d) == IF n >= 0 THEN n \div d ELSE -((-n) \div d)

Cube(n) == n * n * n

\* OutCubic: progress(t) = 1 - (1 - t)^3, as the fraction EaseNum(k) / EaseDen
EaseDen == Cube(Steps)
EaseNum(k) == Cube(Steps) - Cube(Steps - k)

\* _q_interpolate(int f, int t, progress) = int(f + (t - f) * progress)
InterpInt(f, t, k) == TruncDiv(f * EaseDen + (t - f) * EaseNum(k), EaseDen)

\* _q_interpolate(QRect): the four corners are interpolated independently
InterpRect(f, t, k) ==
    QRect(InterpInt(f.x1, t.x1, k), InterpInt(f.y1, t.y1, k),
          InterpInt(f.x2, t.x2, k), InterpInt(f.y2, t.y2, k))

Min(a, b) == IF a <= b THEN a ELSE b

(***************************************************************************)
(* AnimatedStack.setCurrentIndexAnimated                                   *)
(***************************************************************************)
\* handlers are taken from the event queue only when the UI thread is free:
\* not while it is blocked in requests.post, not while the modal dialog is up
UiThreadReentrant == TRUE

UiThreadFree == ui = "idle"

\* timers (the animation driver) also fire in the dialog's nested event loop
TimersRun == ui \in {"idle", "dialog"}

\* the slide without anim.stop(): start() on a running animation does
\* nothing, so the clock keeps its value and the new interval is evaluated
\* at it
SlideNoStop(index) ==
    LET current_rect == geometry
        direction    == IF index > currentIndex THEN 1 ELSE -1
        next_rect    == moveLeft(current_rect, width(current_rect) * direction)
        t            == IF animState = "Running" THEN animTime ELSE 0
    IN  /\ pageGeometry' = [pageGeometry EXCEPT ![index] = next_rect]
        /\ pageVisible'  = [pageVisible EXCEPT ![currentIndex] = FALSE,
                                               ![index] = TRUE]
        /\ animStart' = next_rect
        /\ animEnd'   = current_rect
        /\ animState' = "Running"
        /\ animTime'  = t
        /\ geometry'  = InterpRect(next_rect, current_rect, t)
        /\ currentIndex' = index

\* the slide, lines 269-282
Slide(index) ==
    LET current_rect == geometry
        direction    == IF index > currentIndex THEN 1 ELSE -1
        next_rect    == moveLeft(current_rect, width(current_rect) * direction)
    IN  \* self.widget(index).setGeometry(next_rect); .show();
        \* setCurrentIndex(index) hides the previous page
        /\ pageGeometry' = [pageGeometry EXCEPT ![index] = next_rect]
        /\ pageVisible'  = [pageVisible EXCEPT ![currentIndex] = FALSE,
                                               ![index] = TRUE]
        \* anim.stop(); setStartValue; setEndValue; start(): the clock is
        \* reset and the value at time 0 is written to the property
        /\ animStart' = next_rect
        /\ animEnd'   = current_rect
        /\ animState' = "Running"
        /\ animTime'  = 0
        /\ geometry'  = next_rect
        /\ currentIndex' = index

\* the method without its early return
setCurrentIndexAnimatedNoReturn(index) == Slide(index)

setCurrentIndexAnimated(index) ==
    IF index = currentIndex
    THEN UNCHANGED stackVars
    ELSE Slide(index)

\* the sidebar buttons: btn_home, btn_production, btn_logistics, btn_settings
NavClick(index) ==
    /\ UiThreadFree
    /\ calls < MaxCalls
    /\ setCurrentIndexAnimated(index)
    /\ lastIndex' = index
    /\ lastFrom' = currentIndex
    /\ lastRect' = geometry
    /\ lastNoop' = (index = currentIndex)
    /\ lastRunning' = (animState = "Running")
    /\ calls' = calls + 1
    /\ UNCHANGED <<tableVars, ui, tableHist>>

\* the animation driver advances the running animation by dt ticks
Tick(dt) ==
    /\ TimersRun
    /\ animState = "Running"
    /\ LET t == Min(Steps, animTime + dt)
       IN /\ animTime' = t
          /\ geometry' = InterpRect(animStart, animEnd, t)
          /\ animState' = IF t = Steps THEN "Stopped" ELSE "Running"
    /\ UNCHANGED <<currentIndex, pageGeometry, pageVisible, animStart, animEnd>>
    /\ UNCHANGED <<tableVars, ui, histVars>>

(***************************************************************************)
(* JSON responses of the bridge, as Python sees them after res.json().     *)
(***************************************************************************)
Keys == {"a", "b"}

\* a JSON value: its type and its JSON text
JsonInt1 == [t |-> "int",  v |-> "1"]
JsonNull == [t |-> "null", v |-> "null"]

\* Python's str() of a decoded JSON value
PyStr(x) ==
    CASE x.t = "null" -> "None"
      [] x.t = "bool" -> (IF x.v = "true" THEN "True" ELSE "False")
      [] OTHER        -> x.v

\* the key orders of the objects explored: none, one key, both keys in
\* either order
KeySeqs == { <<>>, <<"a">>, <<"a", "b">>, <<"b", "a">> }

\* the values the keys carry in the objects explored
Valuations ==
    { [k \in Keys |-> IF k = "a" THEN JsonInt1 ELSE JsonNull],
      [k \in Keys |-> IF k = "a" THEN JsonNull ELSE JsonInt1] }

Range(f) == { f[i] : i \in DOMAIN f }

\* a dict decoded from a JSON object: its keys in order, and its values
Objects ==
    { [obj |-> TRUE, keys |-> ks, val |-> [k \in Range(ks) |-> f[k]]] :
        ks \in KeySeqs, f \in Valuations }

\* an array element that is not an object (a number, a string, a list)
NonObject == [obj |-> FALSE, keys |-> <<>>, val |-> <<>>]

Elements == Objects \cup {NonObject}

Arrays == UNION { [1..n -> Elements] : n \in 0..MaxRows }

\* what one POST can come back with:
\*   "network": requests.post raises;  "status": raise_for_status raises;
\*   "parse":   res.json() raises;     "json": a decoded document, which is an
\*   array, a falsy non-array (null, 0, false, "", {}) or another non-array
Responses ==
    { [kind |-> k, top |-> "none", rows |-> <<>>] : k \in {"network", "status", "parse"} }
    \cup { [kind |-> "json", top |-> "array", rows |-> a] : a \in Arrays }
    \cup { [kind |-> "json", top |-> t, rows |-> <<>>] : t \in {"falsy", "other"} }

NoResponse == [kind |-> "none", top |-> "none", rows |-> <<>>]

(***************************************************************************)
(* QTableWidget                                                            *)
(***************************************************************************)
NoItem   == "<no item>"     \* item(r, c) is None
NoHeader == "<no header>"   \* horizontalHeaderItem(c) is None

Cells(n, m) == (0 .. n - 1) \X (0 .. m - 1)

EmptyTable == [rows |-> 0, cols |-> 0, hdr |-> <<>>, item |-> <<>>]

\* columns beyond the new count are dropped with their header and items;
\* new columns have no header item and no items
setColumnCount(t, m) ==
    [rows |-> t.rows, cols |-> m,
     hdr  |-> [c \in 0 .. m - 1 |-> IF c < t.cols THEN t.hdr[c] ELSE NoHeader],
     item |-> [rc \in Cells(t.rows, m) |->
                  IF rc[2] < t.cols THEN t.item[rc] ELSE NoItem]]

setRowCount(t, n) ==
    [rows |-> n, cols |-> t.cols, hdr |-> t.hdr,
     item |-> [rc \in Cells(n, t.cols) |->
                  IF rc[1] < t.rows THEN t.item[rc] ELSE NoItem]]

\* sets the header of column c to labels[c], for the columns that exist
setHorizontalHeaderLabels(t, labels) ==
    [t EXCEPT !.hdr = [c \in 0 .. t.cols - 1 |->
                          IF c < Len(labels) THEN labels[c + 1] ELSE t.hdr[c]]]

setItem(t, r, c, s) ==
    IF <<r, c>> \in Cells(t.rows, t.cols)
    THEN [t EXCEPT !.item[<<r, c>>] = s]
    ELSE t

(***************************************************************************)
(* DataTable                                                               *)
(***************************************************************************)
endpoint == "http://localhost:3000/query"

Labels == {"Drumming", "Ewald", "Convo", "Mixing"}

\* self.buttons
buttons(label) ==
    CASE label = "Drumming" -> "SELECT TOP 10 * FROM dbo.batches"
      [] label = "Ewald"    -> "SELECT TOP 10 * FROM dbo.ewald"
      [] label = "Convo"    -> "SELECT TOP 10 * FROM dbo.convo"
      [] label = "Mixing"   -> "SELECT TOP 10 * FROM dbo.Mixing"

\* lambda checked, q=query: self.run_query(q) -- the query bound to the
\* button when the lambda was made
LateBoundQuery(label) == buttons("Mixing")

ConnectedQuery(label) == buttons(label)

\* requests.post(self.endpoint, json={"query": query})
PostRequest(query) == [url |-> endpoint, json |-> [query |-> query]]

\* the requests run_query issues for one invocation
RequestsFor(query) == <<PostRequest(query)>>

\* the loops with the indices of setItem exchanged
RECURSIVE FillFromSwapped(_, _, _, _)
FillFromSwapped(t, rows, columns, k) ==
    IF k >= Len(rows) * Len(columns)
    THEN [table |-> t, exc |-> ""]
    ELSE LET row_idx  == k \div Len(columns)
             col_idx  == k % Len(columns)
             row      == rows[row_idx + 1]
             col_name == columns[col_idx + 1]
         IN  IF ~row.obj
             THEN [table |-> t, exc |-> "TypeError"]
             ELSE IF col_name \notin Range(row.keys)
             THEN [table |-> t, exc |-> "KeyError"]
             ELSE FillFromSwapped(setItem(t, col_idx, row_idx, PyStr(row.val[col_name])),
                                  rows, columns, k + 1)

\* the nested loops of lines 198-201, from cell number k on (row-major):
\* the table reached and the exception that ended the loops ("" if none)
RECURSIVE FillFrom(_, _, _, _)
FillFrom(t, rows, columns, k) ==
    IF k >= Len(rows) * Len(columns)
    THEN [table |-> t, exc |-> ""]
    ELSE LET row_idx  == k \div Len(columns)
             col_idx  == k % Len(columns)
             row      == rows[row_idx + 1]
             col_name == columns[col_idx + 1]
         IN  IF ~row.obj
             THEN [table |-> t, exc |-> "TypeError"]
             ELSE IF col_name \notin Range(row.keys)
             THEN [table |-> t, exc |-> "KeyError"]
             ELSE FillFrom(setItem(t, row_idx, col_idx, PyStr(row.val[col_name])),
                           rows, columns, k + 1)

\* lines 188-190: setRowCount(0); setColumnCount(1); header "No data"
ShowNoDataKeepRows(t) ==
    setHorizontalHeaderLabels(setColumnCount(t, 1), <<"No data">>)

ShowNoData(t) ==
    setHorizontalHeaderLabels(setColumnCount(setRowCount(t, 0), 1), <<"No data">>)

\* the try block of run_query once requests.post has returned or raised
TryBlock(t, resp) ==
    IF resp.kind = "network" THEN [table |-> t, exc |-> "ConnectionError", branch |-> "raise"]
    ELSE IF resp.kind = "status" THEN [table |-> t, exc |-> "HTTPError", branch |-> "raise"]
    ELSE IF resp.kind = "parse" THEN [table |-> t, exc |-> "JSONDecodeError", branch |-> "raise"]
    ELSE IF resp.top = "falsy" \/ (resp.top = "array" /\ Len(resp.rows) = 0)
    THEN \* if not data:
         [table  |-> ShowNoData(t),
          exc    |-> "",
          branch |-> "nodata"]
    ELSE IF resp.top = "other"
    THEN \* data[0] on a dict, a number or a string
         [table |-> t, exc |-> "KeyError", branch |-> "raise"]
    ELSE IF ~resp.rows[1].obj
    THEN \* data[0].keys()
         [table |-> t, exc |-> "AttributeError", branch |-> "raise"]
    ELSE LET columns == resp.rows[1].keys
             sized   == setHorizontalHeaderLabels(
                            setRowCount(setColumnCount(t, Len(columns)),
                                        Len(resp.rows)),
                            columns)
             filled  == FillFrom(sized, resp.rows, columns, 0)
         IN  [table  |-> filled.table,
              exc    |-> filled.exc,
              branch |-> IF filled.exc = "" THEN "filled" ELSE "raise"]

CaughtRequestsOnly(exc) == exc \in {"ConnectionError", "HTTPError"}

\* except Exception as e: every exception of the try block is an Exception
Caught(exc) == exc # ""

\* the button handler, up to the point where requests.post blocks
ButtonClick(label) ==
    /\ UiThreadFree
    /\ sent' = RequestsFor(ConnectedQuery(label))
    /\ ui' = "posting"
    /\ dialogs' = 0
    /\ outcome' = "running"
    /\ clicked' = label
    /\ prevShape' = <<table.rows, table.cols>>
    /\ everFailed' = (everFailed \/ outcome = "error")
    /\ data' = NoResponse       \* the locals of the new invocation are unbound
    /\ UNCHANGED table
    /\ UNCHANGED <<stackVars, stackHist>>

\* requests.post returns or raises, and run_query runs to its end (or to the
\* point where the modal error dialog is up)
Respond(resp) ==
    /\ ui = "posting"
    /\ LET r == TryBlock(table, resp)
       IN /\ table' = r.table
          /\ IF r.exc = ""
             THEN /\ dialogs' = dialogs
                  /\ outcome' = r.branch
                  /\ ui' = "idle"
             ELSE IF Caught(r.exc)
             THEN /\ dialogs' = dialogs + 1
                  /\ outcome' = "error"
                  /\ ui' = "dialog"
             ELSE /\ dialogs' = dialogs
                  /\ outcome' = "raised"
                  /\ ui' = "idle"
    /\ data' = resp
    /\ UNCHANGED <<sent, stackVars, histVars>>

\* the user closes the error dialog: run_query prints and returns
Dismiss ==
    /\ ui = "dialog"
    /\ ui' = "idle"
    /\ UNCHANGED <<stackVars, tableVars, histVars>>

(***************************************************************************)
(* The window after construction, and the specifications.                  *)
(***************************************************************************)
Init ==
    /\ currentIndex = 0
    /\ geometry = RestRect
    /\ pageGeometry = [p \in Pages |-> IF p = 0 THEN FullPageRect ELSE DefaultPageRect]
    /\ pageVisible = [p \in Pages |-> p = 0]
    /\ animStart = NullRect
    /\ animEnd = NullRect
    /\ animState = "Stopped"
    /\ animTime = 0
    /\ table = EmptyTable
    /\ data = NoResponse
    /\ sent = <<>>
    /\ dialogs = 0
    /\ outcome = "none"
    /\ ui = "idle"
    /\ lastIndex = -1
    /\ lastFrom = -1
    /\ lastRect = RestRect
    /\ lastNoop = FALSE
    /\ lastRunning = FALSE
    /\ calls = 0
    /\ clicked = ""
    /\ prevShape = <<0, 0>>
    /\ everFailed = FALSE

NextStack ==
    \/ \E index \in Pages : NavClick(index)
    \/ \E dt \in 1 .. Steps : Tick(dt)

NextTable ==
    \/ \E label \in Labels : ButtonClick(label)
    \/ \E resp \in Responses : Respond(resp)
    \/ Dismiss

\* the page stack alone
SpecStack == Init /\ [][NextStack]_vars

\* the query table alone
SpecTable == Init /\ [][NextTable]_vars

\* the whole window
Next == NextStack \/ NextTable

Spec == Init /\ [][Next]_vars

(***************************************************************************)
(* Properties of the page stack (checked under SpecStack).                 *)
(***************************************************************************)
\* a step that is a call of setCurrentIndexAnimated
IsCall == calls' # calls

\* C1: a call with the current index changes nothing: not the current
\* index, not the stack's geometry, no page's geometry or visibility, not
\* the animation's start value, end value, clock or state -- also while an
\* animation is running.
C1_NoOpWhenCurrent ==
    [][ (IsCall /\ lastIndex' = currentIndex) => UNCHANGED stackVars ]_vars

\* C1 happens: a call with the current index was made while the animation ran
C1_Witness ==
    /\ lastNoop
    /\ lastRunning
    /\ animState = "Running"
    /\ lastIndex = currentIndex

\* the state right after a sliding call made while no animation was running
AfterCallAtRest ==
    /\ calls > 0
    /\ ~lastNoop
    /\ ~lastRunning
    /\ animState = "Running"
    /\ animTime = 0

\* C2: after such a call the start rectangle has the size and top of the
\* resting rectangle (the stack's geometry when the call was made) and lies
\* exactly one full width to its right (index greater than the old index)
\* or left (smaller), the end rectangle is the resting rectangle, and
\* currentIndex() is the index asked for.
C2_StartOneWidthAway ==
    AfterCallAtRest =>
        /\ width(animStart) = width(lastRect)
        /\ height(animStart) = height(lastRect)
        /\ animStart.y1 = lastRect.y1
        /\ animStart.x1 - lastRect.x1 =
               (IF lastIndex > lastFrom THEN 1 ELSE -1) * width(lastRect)
        /\ animEnd = lastRect
        /\ currentIndex = lastIndex

\* C3: last call wins. After every call the current index is the index of
\* that call and stays so until the next call; a call with another index
\* leaves the one animation running from its start (clock 0, value = start
\* value), whether or not it was running before; the animation is one
\* object, running or stopped.
C3_LastCallWins ==
    /\ [](calls > 0 => currentIndex = lastIndex)
    /\ [](animState \in {"Stopped", "Running"})
    /\ [][ (IsCall /\ lastIndex' # currentIndex) =>
              /\ currentIndex' = lastIndex'
              /\ animState' = "Running"
              /\ animTime' = 0
              /\ geometry' = animStart' ]_vars

\* C3 happens: a call with another index arrived while the animation of the
\* call before it was under way, and restarted it
C3_Witness ==
    /\ calls >= 2
    /\ lastRunning
    /\ ~lastNoop
    /\ animState = "Running"
    /\ animTime = 0
    /\ currentIndex = lastIndex

\* C4: whenever the animation is not running, the stack is at the resting
\* geometry it had before the first call.
C4_EndsAtRest ==
    animState = "Stopped" => geometry = RestRect

(***************************************************************************)
(* Properties of the query table (checked under SpecTable).                *)
(***************************************************************************)
IsEmptyArray(resp) ==
    resp.kind = "json" /\ resp.top = "array" /\ Len(resp.rows) = 0

\* a non-empty array of objects that all have the keys of the first
IsHomogeneous(resp) ==
    /\ resp.kind = "json"
    /\ resp.top = "array"
    /\ Len(resp.rows) > 0
    /\ \A i \in 1 .. Len(resp.rows) :
          /\ resp.rows[i].obj
          /\ Range(resp.rows[i].keys) = Range(resp.rows[1].keys)

\* the responses on which some statement of the try block raises
Raises(resp) ==
    \/ resp.kind \in {"network", "status", "parse"}
    \/ /\ resp.kind = "json"
       /\ resp.top = "other"
    \/ /\ resp.kind = "json"
       /\ resp.top = "array"
       /\ Len(resp.rows) > 0
       /\ \/ ~resp.rows[1].obj
          \/ /\ Len(resp.rows[1].keys) > 0
             /\ \E i \in 2 .. Len(resp.rows) :
                   \/ ~resp.rows[i].obj
                   \/ ~(Range(resp.rows[1].keys) \subseteq Range(resp.rows[i].keys))

\* the grid that shows rows under the columns of the first row
GridOf(rows) ==
    LET columns == rows[1].keys
    IN  [rows |-> Len(rows),
         cols |-> Len(columns),
         hdr  |-> [c \in 0 .. Len(columns) - 1 |-> columns[c + 1]],
         item |-> [rc \in Cells(Len(rows), Len(columns)) |->
                      PyStr(rows[rc[1] + 1].val[columns[rc[2] + 1]])]]

NoDataGrid ==
    [rows |-> 0, cols |-> 1, hdr |-> [c \in {0} |-> "No data"], item |-> <<>>]

\* C5: every invocation issues exactly one POST, to the fixed endpoint,
\* with the query unmodified under "query"; none is added after a failure,
\* none is left out for a query asked before; and the query is the one
\* registered for the button clicked.
C5_OnePostPerInvocation ==
    /\ clicked = "" => sent = <<>>
    /\ clicked # "" =>
          sent = << [url  |-> "http://localhost:3000/query",
                     json |-> [query |-> buttons(clicked)]] >>
    /\ (ui = "posting") = (outcome = "running")

\* C5 happens: a click after a failed invocation, for a button other than
\* the last one of the dictionary, whose own request failed as well
C5_Witness ==
    /\ everFailed
    /\ clicked = "Ewald"
    /\ outcome = "error"
    /\ ui = "idle"

\* C6: after an empty array the table has no rows and one column headed
\* "No data", and no error dialog was shown.
C6_EmptyArrayShowsNoData ==
    IsEmptyArray(data) =>
        /\ table = NoDataGrid
        /\ dialogs = 0
        /\ outcome = "nodata"
        /\ ui = "idle"

\* C6 happens: the empty array arrived when the table showed a grid
C6_Witness ==
    /\ IsEmptyArray(data)
    /\ prevShape[1] > 0
    /\ prevShape[2] > 1

\* C7: after a non-empty array of objects with the same keys the table has
\* one row per object, the keys of the first object as headers in their
\* order, str(value) in every cell, and nothing else.
C7_RowsShown ==
    IsHomogeneous(data) =>
        /\ table = GridOf(data.rows)
        /\ DOMAIN table.item = Cells(Len(data.rows), Len(data.rows[1].keys))
        /\ outcome = "filled"
        /\ dialogs = 0

\* C7 happens: a two-column result with fewer rows than the grid before it
C7_Witness ==
    /\ IsHomogeneous(data)
    /\ Len(data.rows[1].keys) = 2
    /\ Len(data.rows) >= 1
    /\ prevShape[1] > Len(data.rows)
    /\ prevShape[2] > 0

\* C8: a response on which the try block raises gives exactly one error
\* dialog, nothing leaves run_query, and the window goes on: the dialog can
\* be dismissed and the buttons then take the next click.
C8_ExceptionGivesOneDialog ==
    /\ outcome # "raised"
    /\ (data # NoResponse /\ Raises(data)) =>
          /\ dialogs = 1
          /\ outcome = "error"
          /\ ui \in {"dialog", "idle"}
    /\ (data # NoResponse /\ ~Raises(data)) => dialogs = 0
    /\ ui = "dialog" => ENABLED Dismiss
    /\ ui = "idle" => \A label \in Labels : ENABLED ButtonClick(label)

\* C8 happens: an invocation ended in the error dialog, and a later one
\* filled the table
C8_Witness ==
    /\ everFailed
    /\ outcome = "filled"
    /\ table.rows > 0
    /\ table.cols > 0

\* the grid a response that does not raise leaves
ShownBy(resp) ==
    IF resp.top = "falsy" \/ IsEmptyArray(resp)
    THEN NoDataGrid
    ELSE GridOf(resp.rows)

\* C9: invocations do not overlap. While one is blocked in the request or
\* in its dialog no button click and no page switch is taken; and when an
\* invocation has returned without an error, the table is the grid of its
\* response -- the response to the one request of the button clicked last.
C9_NoOverlap ==
    /\ ui # "idle" =>
          /\ \A label \in Labels : ~ENABLED ButtonClick(label)
          /\ \A index \in Pages : ~ENABLED NavClick(index)
    /\ Len(sent) <= 1
    /\ (ui = "idle" /\ outcome \in {"filled", "nodata"}) =>
          /\ table = ShownBy(data)
          /\ sent = <<PostRequest(buttons(clicked))>>

\* C9 happens: a second successful invocation over a grid of another shape
C9_Witness ==
    /\ ~everFailed
    /\ outcome = "filled"
    /\ ui = "idle"
    /\ prevShape[1] > table.rows
    /\ prevShape[2] > table.cols
    /\ table.cols > 0

\* C10: an invocation that ends in the error dialog leaves the table as it
\* was when the invocation began.
C10_ErrorLeavesTable ==
    [][ (ui = "posting" /\ outcome' = "error") => table' = table ]_vars
====
